---- MODULE Spec2Model ----
(***************************************************************************)
(* State-machine model of the platform layer of screen-capturer:           *)
(*   - linux/mod.rs          backend selection (wayland_detect)            *)
(*   - windows/boxed.rs      scoped owners of GDI handles                  *)
(*   - windows/impl_monitor.rs  monitor enumeration                        *)
(*   - macos/impl_window.rs  window enumeration                            *)
(* The crate is built for one target; `platform` is the build target and   *)
(* never changes.  Every operation is synchronous: one call at a time.     *)
(***************************************************************************)
EXTENDS Integers, Sequences, FiniteSets, TLC

VARIABLES
    platform,       \* build target: "linux" | "windows" | "macos"
    \* ---- linux ----
    env,            \* process environment: XDG_SESSION_TYPE, WAYLAND_DISPLAY (Option)
    selected,       \* per entry point: backends chosen since env last changed
    \* ---- windows: resource guards ----
    scope_pc,       \* "idle" | "in_scope" | "exited"
    guards,         \* guards alive in the owning scope, in declaration order
    gdi,            \* native handles acquired by the scope and their release calls
    scope_exit,     \* how the owning scope was left: "none" | "return" | "error"
    \* ---- windows: ImplMonitor::all ----
    mon_pc,         \* "idle" | "enum" | "loop" | "returned"
    displays,       \* native displays known to the OS for this call
    hmonitors_box,  \* the heap accumulator behind hmonitors_mut_ptr
    impl_monitors,  \* the Vec being built
    mon_k,          \* number of handles of h_monitors already processed
    mon_failed,     \* handles for which GetMonitorInfoW or EnumDisplaySettingsW failed
    mon_result,     \* "none" | "Ok" | "Err"
    enum_ret,       \* what EnumDisplayMonitors returned: "none" | "TRUE" | "FALSE"
    hdc_calls,      \* native calls get_scale_factor made with the DC it created
    \* ---- macos: ImplWindow::all ----
    win_pc,         \* "idle" | "loop" | "returned"
    cf_array,       \* Option of the native window list (front to back)
    mac_monitors,   \* result of ImplMonitor::all() on macOS (Option of a list)
    primary_ok,     \* whether ImplMonitor::new(CGDisplay::main().id) succeeds
    impl_windows,   \* the Vec being built
    win_i,          \* loop index i (0-based, as in the source)
    win_result      \* "none" | "Ok" | "Err"

linux_vars   == <<env, selected>>
guard_vars   == <<scope_pc, guards, gdi, scope_exit>>
monitor_vars == <<mon_pc, displays, hmonitors_box, impl_monitors, mon_k, mon_failed, mon_result,
                  enum_ret, hdc_calls>>
window_vars  == <<win_pc, cf_array, mac_monitors, primary_ok, impl_windows, win_i, win_result>>
vars == <<platform, linux_vars, guard_vars, monitor_vars, window_vars>>

(***************************************************************************)
(* Generic helpers                                                         *)
(***************************************************************************)
\* Option<T> as a sequence of length 0 or 1.
None == <<>>
Some(v) == <<v>>
IsSome(o) == Len(o) = 1
Unwrap(o) == o[1]

(***************************************************************************)
(* linux/mod.rs : backend selection                                        *)
(* Strings are sequences of one-character strings.                         *)
(***************************************************************************)
wayland == <<"w", "a", "y", "l", "a", "n", "d">>

\* An OsString byte that is not valid UTF-8, and what to_string_lossy makes of it.
InvalidByte == "\\xFF"
ReplacementChar == "U+FFFD"

\* Values the two variables take in the model (absent, empty, exact, mixed case, ...).
XdgValues ==
    { None,
      Some(<<>>),
      Some(wayland),
      Some(<<"W", "a", "y", "l", "a", "n", "d">>),
      Some(<<"w", "a", "y", "l", "a", "n", "d", "-", "0">>),
      Some(<<"x", "1", "1">>),
      Some(<<"t", "t", "y">>) }

WdValues ==
    { None,
      Some(<<>>),
      Some(<<"w", "a", "y", "l", "a", "n", "d", "-", "0">>),
      Some(<<"W", "A", "Y", "L", "A", "N", "D", "-", "1">>),
      Some(<<"W", "a", "y", "l", "a", "n", "d">>),
      Some(<<"w", "a", "y", "l", "a", "n">>),
      Some(<<":", "0">>),
      Some(<<"x", "w", "a", "y", "l", "a", "n", "d">>),
      Some(<<"w", "a", "y", InvalidByte, "l", "a", "n", "d">>) }

\* Option<OsString>::unwrap_or_default(): the empty string when the variable is absent.
unwrap_or_default(o) == IF IsSome(o) THEN Unwrap(o) ELSE <<>>

\* OsStr::to_string_lossy(): invalid bytes become U+FFFD, the rest is kept.
to_string_lossy(s) == [i \in 1..Len(s) |-> IF s[i] = InvalidByte THEN ReplacementChar ELSE s[i]]

\* char lowercase mapping for the letters of the model's alphabet.
LowerChar(c) ==
    CASE c = "W" -> "w"
      [] c = "A" -> "a"
      [] c = "Y" -> "y"
      [] c = "L" -> "l"
      [] c = "N" -> "n"
      [] c = "D" -> "d"
      [] OTHER -> c

to_lowercase(s) == [i \in 1..Len(s) |-> LowerChar(s[i])]

\* str::contains(needle): scan for the first position where needle starts.
RECURSIVE contains(_, _)
contains(hay, needle) ==
    IF Len(hay) < Len(needle) THEN FALSE
    ELSE IF SubSeq(hay, 1, Len(needle)) = needle THEN TRUE
    ELSE contains(Tail(hay), needle)

\* mutant: the display value is compared without lower-casing it first.
wayland_detect_no_lowercase(e) ==
    LET xdg_session_type == to_string_lossy(unwrap_or_default(e.XDG_SESSION_TYPE))
        wayland_display  == to_string_lossy(unwrap_or_default(e.WAYLAND_DISPLAY))
    IN  xdg_session_type = wayland \/ contains(wayland_display, wayland)

wayland_detect(e) ==
    LET xdg_session_type == to_string_lossy(unwrap_or_default(e.XDG_SESSION_TYPE))
        wayland_display  == to_string_lossy(unwrap_or_default(e.WAYLAND_DISPLAY))
    IN  xdg_session_type = wayland \/ contains(to_lowercase(wayland_display), wayland)

EntryPoints == {"capture_screen", "capture_screen_area"}

\* The backend an entry point dispatches to.
Backend(e) == IF wayland_detect(e) THEN "wayland" ELSE "xorg"

LinuxInit ==
    /\ env \in [XDG_SESSION_TYPE : XdgValues, WAYLAND_DISPLAY : WdValues]
    /\ selected = [p \in EntryPoints |-> {}]

LinuxIdle ==
    /\ env = [XDG_SESSION_TYPE |-> None, WAYLAND_DISPLAY |-> None]
    /\ selected = [p \in EntryPoints |-> {}]

\* The environment is changed from outside between calls (std::env::set_var, a new login).
SetEnv ==
    /\ platform = "linux"
    /\ \E e \in [XDG_SESSION_TYPE : XdgValues, WAYLAND_DISPLAY : WdValues] :
          /\ e # env
          /\ env' = e
    /\ selected' = [p \in EntryPoints |-> {}]
    /\ UNCHANGED <<platform, guard_vars, monitor_vars, window_vars>>

capture_screen ==
    /\ platform = "linux"
    /\ selected' = [selected EXCEPT !["capture_screen"] = @ \cup {Backend(env)}]
    /\ UNCHANGED <<platform, env, guard_vars, monitor_vars, window_vars>>

capture_screen_area ==
    /\ platform = "linux"
    /\ selected' = [selected EXCEPT !["capture_screen_area"] = @ \cup {Backend(env)}]
    /\ UNCHANGED <<platform, env, guard_vars, monitor_vars, window_vars>>

NextLinux == SetEnv \/ capture_screen \/ capture_screen_area

(***************************************************************************)
(* windows/boxed.rs : BoxHDC, BoxHBITMAP, BoxMonitorHDC                    *)
(* An owning scope (a capture routine) builds guards, may drop some        *)
(* explicitly, and leaves by normal return or by an early error return;    *)
(* Rust then runs Drop for every guard still alive, last declared first.   *)
(***************************************************************************)
MaxGuards == 2

\* The native destructor each guard type calls in its Drop impl.
DropCall(guard_type) ==
    CASE guard_type = "BoxHDC"        -> "DeleteDC"
      [] guard_type = "BoxHBITMAP"    -> "DeleteObject"
      [] guard_type = "BoxMonitorHDC" -> "ReleaseDC"

\* A handle returned by a native acquisition call, with the release calls made on it.
Acquired(api, valid) == [api |-> api, valid |-> valid, releases |-> <<>>]

\* Drop::drop for guard g: one call of the guard type's destructor on the held handle.
drop(table, g) ==
    [table EXCEPT ![g.handle].releases = Append(@, DropCall(g.type))]

\* Drop glue at scope exit: locals are dropped in reverse order of declaration.
RECURSIVE drop_all(_, _)
drop_all(table, gs) ==
    IF gs = <<>> THEN table
    ELSE drop_all(drop(table, gs[Len(gs)]), SubSeq(gs, 1, Len(gs) - 1))

GuardInit ==
    /\ scope_pc = "idle"
    /\ guards = <<>>
    /\ gdi = <<>>
    /\ scope_exit = "none"

EnterScope ==
    /\ platform = "windows"
    /\ scope_pc = "idle"
    /\ mon_pc = "idle"
    /\ scope_pc' = "in_scope"
    /\ UNCHANGED <<platform, guards, gdi, scope_exit, linux_vars, monitor_vars, window_vars>>

\* BoxHDC::new / BoxHBITMAP::new / Ok(BoxMonitorHDC{..}): the guard takes the handle as it is.
Wrap(guard_type, api, valid) ==
    /\ gdi' = Append(gdi, Acquired(api, valid))
    /\ guards' = Append(guards, [type |-> guard_type, handle |-> Len(gdi) + 1])

\* impl From<&[u16; 32]> for BoxHDC (and From<&ImplMonitor>): CreateDCW, then BoxHDC::new.
BoxHDC_from_device ==
    /\ platform = "windows"
    /\ scope_pc = "in_scope"
    /\ Len(gdi) < MaxGuards
    /\ \E valid \in BOOLEAN : Wrap("BoxHDC", "CreateDCW", valid)
    /\ UNCHANGED <<platform, scope_pc, scope_exit, linux_vars, monitor_vars, window_vars>>

\* impl From<&ImplWindow> for BoxHDC: GetWindowDC, then BoxHDC::new.
BoxHDC_from_window ==
    /\ platform = "windows"
    /\ scope_pc = "in_scope"
    /\ Len(gdi) < MaxGuards
    /\ \E valid \in BOOLEAN : Wrap("BoxHDC", "GetWindowDC", valid)
    /\ UNCHANGED <<platform, scope_pc, scope_exit, linux_vars, monitor_vars, window_vars>>

\* BoxHBITMAP::new on a bitmap the scope created.
BoxHBITMAP_new ==
    /\ platform = "windows"
    /\ scope_pc = "in_scope"
    /\ Len(gdi) < MaxGuards
    /\ \E valid \in BOOLEAN : Wrap("BoxHBITMAP", "CreateCompatibleBitmap", valid)
    /\ UNCHANGED <<platform, scope_pc, scope_exit, linux_vars, monitor_vars, window_vars>>

\* BoxMonitorHDC::new: GetDC(GetDesktopWindow()); Err, and no guard, when the DC is invalid.
BoxMonitorHDC_new ==
    /\ platform = "windows"
    /\ scope_pc = "in_scope"
    /\ Len(gdi) < MaxGuards
    /\ \E hdc_is_invalid \in BOOLEAN :
          IF hdc_is_invalid
          THEN /\ gdi' = Append(gdi, Acquired("GetDC", FALSE))
               /\ UNCHANGED guards
          ELSE Wrap("BoxMonitorHDC", "GetDC", TRUE)
    /\ UNCHANGED <<platform, scope_pc, scope_exit, linux_vars, monitor_vars, window_vars>>

\* An explicit drop(guard) inside the scope: the guard is moved out and dropped.
ExplicitDrop ==
    /\ platform = "windows"
    /\ scope_pc = "in_scope"
    /\ \E i \in 1..Len(guards) :
          /\ gdi' = drop(gdi, guards[i])
          /\ guards' = SubSeq(guards, 1, i - 1) \o SubSeq(guards, i + 1, Len(guards))
    /\ UNCHANGED <<platform, scope_pc, scope_exit, linux_vars, monitor_vars, window_vars>>

\* The scope is left, by return or by an early `?`/return Err; all live guards are dropped.
ExitScope ==
    /\ platform = "windows"
    /\ scope_pc = "in_scope"
    /\ \E path \in {"return", "error"} : scope_exit' = path
    /\ gdi' = drop_all(gdi, guards)
    /\ guards' = <<>>
    /\ scope_pc' = "exited"
    /\ UNCHANGED <<platform, linux_vars, monitor_vars, window_vars>>

\* The caller goes on; the next operation starts from a clean slate.
ScopeDone ==
    /\ platform = "windows"
    /\ scope_pc = "exited"
    /\ scope_pc' = "idle"
    /\ guards' = <<>>
    /\ gdi' = <<>>
    /\ scope_exit' = "none"
    /\ UNCHANGED <<platform, linux_vars, monitor_vars, window_vars>>

NextGuards ==
    \/ EnterScope
    \/ BoxHDC_from_device
    \/ BoxHDC_from_window
    \/ BoxHBITMAP_new
    \/ BoxMonitorHDC_new
    \/ ExplicitDrop
    \/ ExitScope
    \/ ScopeDone

(***************************************************************************)
(* windows/impl_monitor.rs : ImplMonitor::new, ImplMonitor::all            *)
(* The fields name and frequency are carried through unchanged by the code *)
(* and are left out of the record.                                         *)
(***************************************************************************)
MaxDisplays == 2

MONITORINFOF_PRIMARY == 1
DMDO_DEFAULT == 0
DMDO_90 == 1
DMDO_180 == 2
DMDO_270 == 3

\* ---- f32 values: NaN, +/- infinity, or an exact ratio in lowest terms ----
RECURSIVE Gcd(_, _)
Gcd(a, b) == IF b = 0 THEN a ELSE Gcd(b, a % b)

NaN == [kind |-> "nan", num |-> 0, den |-> 0]
Infinity(sign) == [kind |-> "inf", num |-> sign, den |-> 0]
Finite(a, b) == [kind |-> "fin", num |-> a \div Gcd(a, b), den |-> b \div Gcd(a, b)]

\* `a as f32 / b as f32` for integers a >= 0, b >= 0 (IEEE 754 division).
F32Div(a, b) ==
    IF b = 0 THEN (IF a = 0 THEN NaN ELSE Infinity(1))
    ELSE Finite(a, b)

\* ---- what the OS answers while one monitor is constructed ----
\* DEVMODEW of the current settings: resolution and orientation (4 is no DMDO_* value).
DevModes ==
    { [dmPelsWidth |-> 1920, dmPelsHeight |-> 1080, dmDisplayOrientation |-> DMDO_DEFAULT],
      [dmPelsWidth |-> 1080, dmPelsHeight |-> 1920, dmDisplayOrientation |-> DMDO_90],
      [dmPelsWidth |-> 1920, dmPelsHeight |-> 1080, dmDisplayOrientation |-> DMDO_180],
      [dmPelsWidth |-> 1080, dmPelsHeight |-> 1920, dmDisplayOrientation |-> DMDO_270],
      [dmPelsWidth |-> 1280, dmPelsHeight |-> 720,  dmDisplayOrientation |-> DMDO_DEFAULT],
      [dmPelsWidth |-> 1920, dmPelsHeight |-> 1080, dmDisplayOrientation |-> 4] }

\* Answers on the DPI-aware path: awareness query, Shcore.dll, GetDpiForMonitor.
HiDpi(awareness, library, proc, hresult, dpi_x) ==
    [awareness |-> awareness, load_library |-> library, GetProcAddress |-> proc,
     GetDpiForMonitor |-> hresult, dpi_x |-> dpi_x]

HiDpiAnswers ==
    { HiDpi("err", TRUE, TRUE, TRUE, 96),
      HiDpi("unaware", TRUE, TRUE, TRUE, 96),
      HiDpi("aware", FALSE, TRUE, TRUE, 96),
      HiDpi("aware", TRUE, FALSE, TRUE, 96),
      HiDpi("aware", TRUE, TRUE, FALSE, 96),
      HiDpi("aware", TRUE, TRUE, TRUE, 96),
      HiDpi("aware", TRUE, TRUE, TRUE, 144) }

\* Answers on the fallback path: whether CreateDCW gave a valid DC, and its device caps.
FallbackAnswers ==
    { [hdc_valid |-> TRUE,  DESKTOPHORZRES |-> 1920, HORZRES |-> 1920],
      [hdc_valid |-> TRUE,  DESKTOPHORZRES |-> 2880, HORZRES |-> 1920],
      [hdc_valid |-> FALSE, DESKTOPHORZRES |-> 1920, HORZRES |-> 1920] }

Ok(v) == [ok |-> TRUE, val |-> v]
Err(e) == [ok |-> FALSE, val |-> e]

\* get_hi_dpi_scale_factor: every `?` and the explicit not-aware return, then dpi_x / 96.0.
get_hi_dpi_scale_factor(q) ==
    IF q.awareness = "err" THEN Err("get_process_is_dpi_awareness failed")
    ELSE IF q.awareness = "unaware" THEN Err("Process not DPI aware")
    ELSE IF ~q.load_library THEN Err("load_library failed")
    ELSE IF ~q.GetProcAddress THEN Err("GetProcAddress GetDpiForMonitor failed")
    ELSE IF ~q.GetDpiForMonitor THEN Err("GetDpiForMonitor failed")
    ELSE Ok(F32Div(q.dpi_x, 96))

\* GetDeviceCaps on the DC held by the scope guard: 0 when the DC is not valid.
GetDeviceCaps(f, index) == IF f.hdc_valid THEN f[index] ELSE 0

\* get_scale_factor: the DPI-aware value, or else physical width / logical width.
get_scale_factor(q, f) ==
    LET hi == get_hi_dpi_scale_factor(q)
    IN  IF hi.ok THEN Ok(hi.val)
        ELSE LET physical_width == GetDeviceCaps(f, "DESKTOPHORZRES")
                 logical_width  == GetDeviceCaps(f, "HORZRES")
             IN  Ok(F32Div(physical_width, logical_width))

\* The native calls get_scale_factor makes with the DC returned by CreateDCW: none on
\* the DPI-aware path; on the fallback path two GetDeviceCaps calls and, when the
\* scope guard is dropped, DeleteDC.  No call is preceded by a validity check.
get_scale_factor_calls(q, f) ==
    IF get_hi_dpi_scale_factor(q).ok THEN {}
    ELSE { [call |-> c, acquired_by |-> "CreateDCW", hdc_valid |-> f.hdc_valid] :
              c \in {"GetDeviceCaps(DESKTOPHORZRES)", "GetDeviceCaps(HORZRES)", "DeleteDC"} }

\* The native calls one ImplMonitor::new makes with a DC it acquired itself.
ImplMonitor_new_calls(a) ==
    IF a.GetMonitorInfoW /\ a.EnumDisplaySettingsW
    THEN get_scale_factor_calls(a.hi_dpi, a.fallback)
    ELSE {}

\* The match on dmDisplayOrientation.
rotation_of(dm_display_orientation) ==
    CASE dm_display_orientation = DMDO_90      -> 90
      [] dm_display_orientation = DMDO_180     -> 180
      [] dm_display_orientation = DMDO_270     -> 270
      [] dm_display_orientation = DMDO_DEFAULT -> 0
      [] OTHER -> 0

\* mutant: every monitor is reported as primary.
is_primary_always(dwFlags) == TRUE

\* is_primary: monitor_info_ex_w.monitorInfo.dwFlags == MONITORINFOF_PRIMARY
is_primary_of(dwFlags) == dwFlags = MONITORINFOF_PRIMARY

\* All answers for one construction.
Answers(info, settings, dm, q, f) ==
    [GetMonitorInfoW |-> info, EnumDisplaySettingsW |-> settings, dev_mode_w |-> dm,
     hi_dpi |-> q, fallback |-> f]

AnyDevMode == CHOOSE dm \in DevModes : TRUE
AnyHiDpi == CHOOSE q \in HiDpiAnswers : TRUE
AnyFallback == CHOOSE f \in FallbackAnswers : TRUE

\* The fallback answers matter only when the DPI-aware path returns Err.
MonitorAnswers ==
    {Answers(FALSE, TRUE, AnyDevMode, AnyHiDpi, AnyFallback)}
    \cup {Answers(TRUE, FALSE, AnyDevMode, AnyHiDpi, AnyFallback)}
    \cup {Answers(TRUE, TRUE, dm, q, AnyFallback) :
             dm \in DevModes, q \in {x \in HiDpiAnswers : get_hi_dpi_scale_factor(x).ok}}
    \cup {Answers(TRUE, TRUE, dm, qf[1], qf[2]) :
             dm \in DevModes,
             qf \in {x \in HiDpiAnswers : ~get_hi_dpi_scale_factor(x).ok} \X FallbackAnswers}

\* ImplMonitor::new(h_monitor) for native display d under OS answers a.
ImplMonitor_new(d, a) ==
    IF ~a.GetMonitorInfoW THEN Err("GetMonitorInfoW failed")
    ELSE IF ~a.EnumDisplaySettingsW THEN Err("EnumDisplaySettingsW failed")
    ELSE LET scale_factor == get_scale_factor(a.hi_dpi, a.fallback)
         IN  IF ~scale_factor.ok THEN Err(scale_factor.val)
             ELSE Ok([ h_monitor    |-> d.h_monitor,
                       id           |-> d.h_monitor,
                       x            |-> d.x,
                       y            |-> d.y,
                       width        |-> a.dev_mode_w.dmPelsWidth,
                       height       |-> a.dev_mode_w.dmPelsHeight,
                       rotation     |-> rotation_of(a.dev_mode_w.dmDisplayOrientation),
                       scale_factor |-> scale_factor.val,
                       is_primary   |-> is_primary_of(d.dwFlags) ])

\* mutant: a failed construction throws away what was collected so far.
all_loop_body_reset(monitors, r) == IF r.ok THEN Append(monitors, r.val) ELSE <<>>

\* The body of the for loop of ImplMonitor::all: push on Ok, log and go on otherwise.
all_loop_body(monitors, r) == IF r.ok THEN Append(monitors, r.val) ELSE monitors

\* The native displays: handles in enumeration order, exactly one flagged primary.
NativeDisplays(n, p) ==
    [i \in 1..n |-> [ h_monitor |-> 65536 + i,
                      dwFlags   |-> IF i = p THEN MONITORINFOF_PRIMARY ELSE 0,
                      x         |-> 1920 * (i - 1),
                      y         |-> 0 ]]

DisplayOf(h) == CHOOSE i \in 1..Len(displays) : displays[i].h_monitor = h

EmptyBox == [allocated |-> FALSE, freed_by |-> <<>>, items |-> <<>>]

MonitorInit ==
    /\ mon_pc = "idle"
    /\ displays = <<>>
    /\ hmonitors_box = EmptyBox
    /\ impl_monitors = <<>>
    /\ mon_k = 0
    /\ mon_failed = {}
    /\ mon_result = "none"
    /\ enum_ret = "none"
    /\ hdc_calls = {}

\* ImplMonitor::all, first statement: Box::into_raw(Box::default()).
MonitorAll_Begin ==
    /\ platform = "windows"
    /\ mon_pc = "idle"
    /\ scope_pc = "idle"
    /\ \E n \in 0..MaxDisplays :
          \E p \in (IF n = 0 THEN {0} ELSE 1..n) : displays' = NativeDisplays(n, p)
    /\ hmonitors_box' = [allocated |-> TRUE, freed_by |-> <<>>, items |-> <<>>]
    /\ impl_monitors' = <<>>
    /\ mon_k' = 0
    /\ mon_failed' = {}
    /\ mon_result' = "none"
    /\ enum_ret' = "none"
    /\ hdc_calls' = {}
    /\ mon_pc' = "enum"
    /\ UNCHANGED <<platform, linux_vars, guard_vars, window_vars>>

\* monitor_enum_proc: Box::from_raw, Box::leak (no deallocation), push, return TRUE.
monitor_enum_proc ==
    /\ platform = "windows"
    /\ mon_pc = "enum"
    /\ Len(hmonitors_box.items) < Len(displays)
    /\ hmonitors_box' =
          [hmonitors_box EXCEPT
              !.items = Append(@, displays[Len(hmonitors_box.items) + 1].h_monitor)]
    /\ UNCHANGED <<platform, mon_pc, displays, impl_monitors, mon_k, mon_failed, mon_result,
                   enum_ret, hdc_calls, linux_vars, guard_vars, window_vars>>

\* EnumDisplayMonitors returns; `.ok()?` leaves all() early when it reports failure.
EnumDisplayMonitors_Return ==
    /\ platform = "windows"
    /\ mon_pc = "enum"
    /\ \/ \* success: every display was handed to the callback; Box::from_raw takes it back
          /\ Len(hmonitors_box.items) = Len(displays)
          /\ enum_ret' = "TRUE"
          /\ mon_pc' = "loop"
          /\ UNCHANGED <<hmonitors_box, mon_result>>
       \/ \* failure: Err is returned; the raw pointer is forgotten, nothing is freed
          /\ enum_ret' = "FALSE"
          /\ mon_pc' = "returned"
          /\ mon_result' = "Err"
          /\ UNCHANGED hmonitors_box
    /\ UNCHANGED <<platform, displays, impl_monitors, mon_k, mon_failed, hdc_calls,
                   linux_vars, guard_vars, window_vars>>

\* One iteration of `for &h_monitor in h_monitors.iter()`.
MonitorAll_Loop ==
    /\ platform = "windows"
    /\ mon_pc = "loop"
    /\ mon_k < Len(hmonitors_box.items)
    /\ \E a \in MonitorAnswers :
          LET h == hmonitors_box.items[mon_k + 1]
              r == ImplMonitor_new(displays[DisplayOf(h)], a)
          IN  /\ impl_monitors' = all_loop_body(impl_monitors, r)
              /\ mon_failed' = IF a.GetMonitorInfoW /\ a.EnumDisplaySettingsW
                                THEN mon_failed ELSE mon_failed \cup {h}
              /\ hdc_calls' = hdc_calls \cup ImplMonitor_new_calls(a)
    /\ mon_k' = mon_k + 1
    /\ UNCHANGED <<platform, mon_pc, displays, hmonitors_box, mon_result, enum_ret,
                   linux_vars, guard_vars, window_vars>>

\* Ok(impl_monitors); h_monitors goes out of scope and its Box is freed.
MonitorAll_Return ==
    /\ platform = "windows"
    /\ mon_pc = "loop"
    /\ mon_k = Len(hmonitors_box.items)
    /\ hmonitors_box' = [hmonitors_box EXCEPT !.allocated = FALSE,
                                              !.freed_by = Append(@, "ImplMonitor::all")]
    /\ mon_result' = "Ok"
    /\ mon_pc' = "returned"
    /\ UNCHANGED <<platform, displays, impl_monitors, mon_k, mon_failed, enum_ret, hdc_calls,
                   linux_vars, guard_vars, window_vars>>

\* The caller has the result; the next call starts afresh.
MonitorAll_Done ==
    /\ platform = "windows"
    /\ mon_pc = "returned"
    /\ mon_pc' = "idle"
    /\ displays' = <<>>
    /\ hmonitors_box' = EmptyBox
    /\ impl_monitors' = <<>>
    /\ mon_k' = 0
    /\ mon_failed' = {}
    /\ mon_result' = "none"
    /\ enum_ret' = "none"
    /\ hdc_calls' = {}
    /\ UNCHANGED <<platform, linux_vars, guard_vars, window_vars>>

NextMonitors ==
    \/ MonitorAll_Begin
    \/ monitor_enum_proc
    \/ EnumDisplayMonitors_Return
    \/ MonitorAll_Loop
    \/ MonitorAll_Return
    \/ MonitorAll_Done

(***************************************************************************)
(* macos/impl_window.rs : ImplWindow::new, ImplWindow::all                 *)
(* Coordinates are CGFloat in the source; the model uses integers with     *)
(* even sizes, so that origin + size / 2.0 is exact.                       *)
(***************************************************************************)
MaxWindows == 2

kCGWindowSharingNone == 0

Rect(x, y, w, h) == [x |-> x, y |-> y, width |-> w, height |-> h]

\* ---- the monitors ImplWindow::all gets from ImplMonitor::all() ----
MacMonitor(id, bounds) ==
    [id |-> id, bounds |-> bounds, width |-> bounds.width, height |-> bounds.height]

MonitorA == MacMonitor(1, Rect(0, 0, 1920, 1080))
MonitorB == MacMonitor(2, Rect(1920, 0, 1920, 1080))

\* What the monitor layer answers during one call: Option of the monitor list, and
\* whether ImplMonitor::new(CGDisplay::main().id) succeeds (the main display is A).
MacMonitorAnswers ==
    { [all |-> None,                          main_ok |-> TRUE],
      [all |-> Some(<<>>),                    main_ok |-> TRUE],
      [all |-> Some(<<MonitorA>>),            main_ok |-> TRUE],
      [all |-> Some(<<MonitorA, MonitorB>>),  main_ok |-> TRUE],
      [all |-> Some(<<MonitorA, MonitorB>>),  main_ok |-> FALSE] }

\* ---- the native window dictionaries ----
\* A dictionary value: missing key, present but failing its type-specific decode, or ok.
Missing(v) == [st |-> "missing", v |-> v]
Bad(v) == [st |-> "bad", v |-> v]
Val(v) == [st |-> "ok", v |-> v]

Entry(is_null, name, owner, sharing, number, pid, bounds, onscreen) ==
    [ is_null               |-> is_null,
      kCGWindowName         |-> name,
      kCGWindowOwnerName    |-> owner,
      kCGWindowSharingState |-> sharing,
      kCGWindowNumber       |-> number,
      kCGWindowOwnerPID     |-> pid,
      kCGWindowBounds       |-> bounds,
      kCGWindowIsOnscreen   |-> onscreen ]

InsideA == Rect(100, 100, 800, 600)
Spanning == Rect(1800, 100, 1000, 600)
FullA == Rect(0, 0, 1920, 1080)
OffScreen == Rect(5000, 5000, 100, 100)

Good(name, owner, bounds, onscreen) ==
    Entry(FALSE, Val(name), Val(owner), Val(1), Val(0), Val(4242), Val(bounds), Val(onscreen))

\* Entries that construct (given a primary monitor) ...
GoodEntries ==
    { Good("Doc", "App", InsideA, TRUE),
      Good("Doc", "App", InsideA, FALSE),
      Good("Doc", "App", FullA, TRUE),
      Good("Doc", "App", FullA, FALSE),
      Good("Doc", "App", Spanning, TRUE),
      Good("Doc", "App", OffScreen, TRUE),
      Good("StatusIndicator", "App", InsideA, TRUE) }

\* ... and one entry per way of being skipped.
SkippedEntries ==
    { Entry(TRUE, Val("Doc"), Val("App"), Val(1), Val(0), Val(4242), Val(InsideA), Val(TRUE)),
      Entry(FALSE, Missing(""), Val("App"), Val(1), Val(0), Val(4242), Val(InsideA), Val(TRUE)),
      Entry(FALSE, Val("Doc"), Missing(""), Val(1), Val(0), Val(4242), Val(InsideA), Val(TRUE)),
      Good("StatusIndicator", "Window Server", InsideA, TRUE),
      Entry(FALSE, Val("Doc"), Val("App"), Missing(0), Val(0), Val(4242), Val(InsideA), Val(TRUE)),
      Entry(FALSE, Val("Doc"), Val("App"), Val(kCGWindowSharingNone), Val(0), Val(4242),
            Val(InsideA), Val(TRUE)),
      Entry(FALSE, Val("Doc"), Val("App"), Val(1), Bad(0), Val(4242), Val(InsideA), Val(TRUE)),
      Entry(FALSE, Val("Doc"), Val("App"), Val(1), Val(0), Missing(0), Val(InsideA), Val(TRUE)),
      Entry(FALSE, Val("Doc"), Val("App"), Val(1), Val(0), Val(4242), Missing(InsideA), Val(TRUE)),
      Entry(FALSE, Val("Doc"), Val("App"), Val(1), Val(0), Val(4242), Bad(InsideA), Val(TRUE)),
      Entry(FALSE, Val("Doc"), Val("App"), Val(1), Val(0), Val(4242), Val(InsideA), Missing(TRUE)) }

WindowEntries == GoodEntries \cup SkippedEntries

\* The window number the OS gave the entry at native position i (1-based): unique per list.
WindowNumber(i) == 100 + i

\* Native lists: entries front to back, each carrying its own window number.
NativeLists ==
    UNION { { [i \in 1..n |->
                 [es[i] EXCEPT !.kCGWindowNumber.v = WindowNumber(i)]] :
              es \in [1..n -> WindowEntries] } : n \in 0..MaxWindows }

\* ---- decoding helpers ----
\* get_cf_dictionary_get_value: Err when CFDictionaryGetValue returns null.
get_cf_dictionary_get_value(f) ==
    IF f.st = "missing" THEN Err("Get CFDictionary value failed") ELSE Ok(f)

\* get_cf_number_i32_value: the value, or Err when CFNumberGetValue reports failure.
get_cf_number_i32_value(f) ==
    LET cf_number_ref == get_cf_dictionary_get_value(f)
    IN  IF ~cf_number_ref.ok THEN cf_number_ref
        ELSE IF f.st = "bad" THEN Err("CFNumberGetValue failed")
        ELSE Ok(f.v)

get_cf_string_value(f) ==
    LET value_ref == get_cf_dictionary_get_value(f)
    IN  IF ~value_ref.ok THEN value_ref ELSE Ok(f.v)

get_cf_bool_value(f) ==
    LET value_ref == get_cf_dictionary_get_value(f)
    IN  IF ~value_ref.ok THEN value_ref ELSE Ok(f.v)

\* get_window_cg_rect: Err when CGRectMakeWithDictionaryRepresentation returns null.
get_window_cg_rect(f) ==
    LET window_bounds_ref == get_cf_dictionary_get_value(f)
    IN  IF ~window_bounds_ref.ok THEN window_bounds_ref
        ELSE IF f.st = "bad" THEN Err("CGRectMakeWithDictionaryRepresentation failed")
        ELSE Ok(f.v)

\* `v as u32` for a float v: saturating (the upper end, u32::MAX, is beyond every size
\* of the model, so only the lower end is written out).
AsU32(v) == IF v < 0 THEN 0 ELSE v

\* CGRect::contains(&point): CGRectContainsPoint, min edge inclusive, max edge exclusive.
contains_point(b, px, py) ==
    /\ b.x <= px /\ px < b.x + b.width
    /\ b.y <= py /\ py < b.y + b.height

\* CGRect::is_intersects(&rect): CGRectIntersectsRect.
is_intersects(b, r) ==
    /\ b.x < r.x + r.width /\ r.x < b.x + b.width
    /\ b.y < r.y + r.height /\ r.y < b.y + b.height

\* impl_monitors.iter().find(..): the first monitor that contains the center or intersects.
RECURSIVE find_monitor(_, _, _, _)
find_monitor(monitors, px, py, cg_rect) ==
    IF monitors = <<>> THEN None
    ELSE IF \/ contains_point(Head(monitors).bounds, px, py)
            \/ is_intersects(Head(monitors).bounds, cg_rect)
         THEN Some(Head(monitors))
         ELSE find_monitor(Tail(monitors), px, py, cg_rect)

\* mutant: the window's on-screen flag decides alone.
is_minimized_ignoring_maximized(onscreen, is_maximized) == ~onscreen

\* is_minimized: !kCGWindowIsOnscreen && !is_maximized
is_minimized_of(onscreen, is_maximized) == ~onscreen /\ ~is_maximized

\* ImplWindow::new: every `?` in source order, the monitor lookup, the derived flags.
ImplWindow_new(e, monitors, main_ok, window_name, window_owner_name, z) ==
    LET id      == get_cf_number_i32_value(e.kCGWindowNumber)
        pid     == get_cf_number_i32_value(e.kCGWindowOwnerPID)
        cg_rect == get_window_cg_rect(e.kCGWindowBounds)
        onscreen == get_cf_bool_value(e.kCGWindowIsOnscreen)
    IN  IF ~id.ok THEN id
        ELSE IF ~pid.ok THEN pid
        ELSE IF ~cg_rect.ok THEN cg_rect
        ELSE IF ~main_ok THEN Err("ImplMonitor::new(CGDisplay::main().id) failed")
        ELSE LET window_center_x == cg_rect.val.x + cg_rect.val.width \div 2
                 window_center_y == cg_rect.val.y + cg_rect.val.height \div 2
                 found == find_monitor(monitors, window_center_x, window_center_y, cg_rect.val)
                 impl_monitor == IF IsSome(found) THEN Unwrap(found) ELSE MonitorA
                 is_maximized == /\ AsU32(cg_rect.val.width) >= impl_monitor.width
                                 /\ AsU32(cg_rect.val.height) >= impl_monitor.height
             IN  IF ~onscreen.ok THEN onscreen
                 ELSE Ok([ id              |-> id.val,
                           title           |-> window_name,
                           app_name        |-> window_owner_name,
                           pid             |-> pid.val,
                           current_monitor |-> impl_monitor,
                           x               |-> cg_rect.val.x,
                           y               |-> cg_rect.val.y,
                           z               |-> z,
                           width           |-> AsU32(cg_rect.val.width),
                           height          |-> AsU32(cg_rect.val.height),
                           is_minimized    |-> is_minimized_of(onscreen.val, is_maximized),
                           is_maximized    |-> is_maximized ])

\* mutant: z counts from the front of the native list.
z_from_front(num_windows, i) == i

\* The z argument of ImplWindow::new: num_windows as i32 - i as i32 - 1.
z_of(num_windows, i) == num_windows - i - 1

\* The body of `for i in 0..num_windows`: each `continue`, then push on Ok.
window_loop_body(windows, e, monitors, main_ok, num_windows, i) ==
    LET window_name          == get_cf_string_value(e.kCGWindowName)
        window_owner_name    == get_cf_string_value(e.kCGWindowOwnerName)
        window_sharing_state == get_cf_number_i32_value(e.kCGWindowSharingState)
    IN  IF e.is_null THEN windows
        ELSE IF ~window_name.ok THEN windows
        ELSE IF ~window_owner_name.ok THEN windows
        ELSE IF window_name.val = "StatusIndicator" /\ window_owner_name.val = "Window Server"
             THEN windows
        ELSE IF ~window_sharing_state.ok THEN windows
        ELSE IF window_sharing_state.val = kCGWindowSharingNone THEN windows
        ELSE LET r == ImplWindow_new(e, monitors, main_ok, window_name.val,
                                     window_owner_name.val, z_of(num_windows, i))
             IN  IF r.ok THEN Append(windows, r.val) ELSE windows

WindowInit ==
    /\ win_pc = "idle"
    /\ cf_array = None
    /\ mac_monitors = None
    /\ primary_ok = TRUE
    /\ impl_windows = <<>>
    /\ win_i = 0
    /\ win_result = "none"

\* ImplWindow::all up to the loop: ImplMonitor::all()?, CGWindowListCopyWindowInfo, null check.
WindowAll_Begin ==
    /\ platform = "macos"
    /\ win_pc = "idle"
    /\ \E m \in MacMonitorAnswers :
          /\ mac_monitors' = m.all
          /\ primary_ok' = m.main_ok
          /\ \/ \* ImplMonitor::all() failed: `?` returns the error
                /\ ~IsSome(m.all)
                /\ cf_array' = None
                /\ win_result' = "Err"
                /\ win_pc' = "returned"
             \/ \* the window list is null: return Ok(impl_windows), still empty
                /\ IsSome(m.all)
                /\ cf_array' = None
                /\ win_result' = "Ok"
                /\ win_pc' = "returned"
             \/ \* the window list is there: num_windows = CFArrayGetCount
                /\ IsSome(m.all)
                /\ \E l \in NativeLists : cf_array' = Some(l)
                /\ win_result' = "none"
                /\ win_pc' = "loop"
    /\ impl_windows' = <<>>
    /\ win_i' = 0
    /\ UNCHANGED <<platform, linux_vars, guard_vars, monitor_vars>>

\* One iteration of the loop over the native list.
WindowAll_Loop ==
    /\ platform = "macos"
    /\ win_pc = "loop"
    /\ win_i < Len(Unwrap(cf_array))
    /\ impl_windows' = window_loop_body(impl_windows, Unwrap(cf_array)[win_i + 1],
                                        Unwrap(mac_monitors), primary_ok,
                                        Len(Unwrap(cf_array)), win_i)
    /\ win_i' = win_i + 1
    /\ UNCHANGED <<platform, win_pc, cf_array, mac_monitors, primary_ok, win_result,
                   linux_vars, guard_vars, monitor_vars>>

\* Ok(impl_windows) after the last entry.
WindowAll_Return ==
    /\ platform = "macos"
    /\ win_pc = "loop"
    /\ win_i = Len(Unwrap(cf_array))
    /\ win_result' = "Ok"
    /\ win_pc' = "returned"
    /\ UNCHANGED <<platform, cf_array, mac_monitors, primary_ok, impl_windows, win_i,
                   linux_vars, guard_vars, monitor_vars>>

\* The caller has the result; the next call starts afresh.
WindowAll_Done ==
    /\ platform = "macos"
    /\ win_pc = "returned"
    /\ win_pc' = "idle"
    /\ cf_array' = None
    /\ mac_monitors' = None
    /\ primary_ok' = TRUE
    /\ impl_windows' = <<>>
    /\ win_i' = 0
    /\ win_result' = "none"
    /\ UNCHANGED <<platform, linux_vars, guard_vars, monitor_vars>>

NextWindows ==
    \/ WindowAll_Begin
    \/ WindowAll_Loop
    \/ WindowAll_Return
    \/ WindowAll_Done

(***************************************************************************)
(* Specifications: one per build target, and all targets together          *)
(***************************************************************************)
Init ==
    /\ platform \in {"linux", "windows", "macos"}
    /\ IF platform = "linux" THEN LinuxInit ELSE LinuxIdle
    /\ GuardInit
    /\ MonitorInit
    /\ WindowInit

NextWindowsOS == NextGuards \/ NextMonitors

Next == NextLinux \/ NextWindowsOS \/ NextWindows

Spec == Init /\ [][Next]_vars

InitLinux == Init /\ platform = "linux"
SpecLinux == InitLinux /\ [][NextLinux]_vars

InitWindowsOS == Init /\ platform = "windows"
SpecWindows == InitWindowsOS /\ [][NextWindowsOS]_vars

InitMacos == Init /\ platform = "macos"
SpecMacos == InitMacos /\ [][NextWindows]_vars

(***************************************************************************)
(* Properties                                                              *)
(***************************************************************************)
\* The destructor Win32 pairs with each acquisition call.
MatchingDestructor(api) ==
    CASE api = "CreateDCW"              -> "DeleteDC"
      [] api = "GetWindowDC"            -> "ReleaseDC"
      [] api = "GetDC"                  -> "ReleaseDC"
      [] api = "CreateCompatibleBitmap" -> "DeleteObject"

\* C1: once the owning scope has been left (by return or by error), every valid handle
\* a guard held has been released exactly once, by the destructor matching the call
\* that acquired it; and no handle is ever released more than once.
C1_ReleasedOnceByMatchingDestructor ==
    /\ \A h \in 1..Len(gdi) : Len(gdi[h].releases) <= 1
    /\ scope_pc = "exited" =>
          \A h \in 1..Len(gdi) :
              gdi[h].valid => gdi[h].releases = <<MatchingDestructor(gdi[h].api)>>

\* ---- window enumeration: the native list and the returned windows ----
Native == Unwrap(cf_array)
WindowsReturned == win_pc = "returned" /\ win_result = "Ok" /\ IsSome(cf_array)
ZValues == {impl_windows[k].z : k \in 1..Len(impl_windows)}
\* 1-based native position of the entry a returned window came from.
NativePosition(w) == CHOOSE p \in 1..Len(Native) : Native[p].kCGWindowNumber.v = w.id

\* C2 (as claimed): the z values of the n returned windows are a permutation of 0..n-1
\* and the frontmost native entry, when returned, has z = n-1, whatever was skipped.
C2_ZIsPermutationOfReturned ==
    WindowsReturned =>
        LET n == Len(impl_windows)
        IN  /\ ZValues = 0..(n - 1)
            /\ \A k \in 1..n : NativePosition(impl_windows[k]) = 1 => impl_windows[k].z = n - 1

\* C2 (amended): each returned window's z is count - 1 - position, count being the length
\* of the native list and position the window's 0-based place in it; so the z values are
\* strictly decreasing along the result and lie in 0..count-1, and they are a permutation
\* of 0..n-1 with the frontmost entry at n-1 when nothing was skipped.
C2_ZIsNativeRank ==
    WindowsReturned =>
        LET n == Len(impl_windows)
            count == Len(Native)
        IN  /\ \A k \in 1..n : impl_windows[k].z = count - 1 - (NativePosition(impl_windows[k]) - 1)
            /\ \A k \in 1..n : impl_windows[k].z \in 0..(count - 1)
            /\ \A k \in 1..(n - 1) : impl_windows[k].z > impl_windows[k + 1].z
            /\ n = count => /\ ZValues = 0..(n - 1)
                            /\ n >= 1 => impl_windows[1].z = n - 1

\* C2 witness: a list of two whose back entry was skipped; the only window returned has z = 1.
C2_Witness ==
    /\ WindowsReturned
    /\ Len(Native) = 2
    /\ Len(impl_windows) = 1
    /\ impl_windows[1].id = WindowNumber(1)
    /\ impl_windows[1].z = 1

\* ---- monitor enumeration ----
MonitorsReturned == mon_pc = "returned" /\ mon_result = "Ok"
PrimaryMonitors == {k \in 1..Len(impl_monitors) : impl_monitors[k].is_primary}
PrimaryDisplay == CHOOSE i \in 1..Len(displays) : displays[i].dwFlags = MONITORINFOF_PRIMARY

C4_ListingFailureIsError ==
    /\ (mon_pc = "returned" /\ enum_ret = "FALSE") => mon_result = "Err"
    /\ (win_pc = "returned" /\ IsSome(mac_monitors) /\ cf_array = None) => win_result = "Err"

\* An entry that is there, passes both filters, and whose every required value decodes.
Decodes(e) ==
    /\ ~e.is_null
    /\ \A key \in {"kCGWindowName", "kCGWindowOwnerName", "kCGWindowSharingState",
                   "kCGWindowNumber", "kCGWindowOwnerPID", "kCGWindowBounds",
                   "kCGWindowIsOnscreen"} : e[key].st = "ok"
    /\ ~(e.kCGWindowName.v = "StatusIndicator" /\ e.kCGWindowOwnerName.v = "Window Server")
    /\ e.kCGWindowSharingState.v # kCGWindowSharingNone

F32Positive(f) ==
    \/ f.kind = "inf" /\ f.num > 0
    \/ f.kind = "fin" /\ f.num > 0

\* C6: every monitor returned has scale_factor > 0, rotation in {0, 90, 180, 270},
\* width > 0 and height > 0.
C6_MonitorFieldsValid ==
    \A k \in 1..Len(impl_monitors) :
        /\ F32Positive(impl_monitors[k].scale_factor)
        /\ impl_monitors[k].rotation \in {0, 90, 180, 270}
        /\ impl_monitors[k].width > 0
        /\ impl_monitors[k].height > 0

\* C7: for every window built, is_minimized and is_maximized are never both true;
\* is_maximized holds iff width and height are both >= the associated monitor's;
\* is_minimized holds iff the OS reports the window not on screen and is_maximized is false.
C7_MinimizedMaximized ==
    win_pc \in {"loop", "returned"} /\ IsSome(cf_array) =>
        \A k \in 1..Len(impl_windows) :
            LET w == impl_windows[k]
                e == Native[NativePosition(w)]
            IN  /\ ~(w.is_minimized /\ w.is_maximized)
                /\ w.is_maximized <=> (/\ w.width >= w.current_monitor.width
                                       /\ w.height >= w.current_monitor.height)
                /\ w.is_minimized <=> (~e.kCGWindowIsOnscreen.v /\ ~w.is_maximized)

\* C7 witness: a window that fills its monitor and is not on screen: maximized, not minimized.
C7_Witness ==
    /\ win_pc = "returned"
    /\ \E k \in 1..Len(impl_windows) :
          /\ impl_windows[k].is_maximized
          /\ ~impl_windows[k].is_minimized
          /\ ~Native[NativePosition(impl_windows[k])].kCGWindowIsOnscreen.v

\* The claim's rule, read off the raw environment: XDG_SESSION_TYPE is exactly "wayland",
\* or some window of WAYLAND_DISPLAY spells "wayland" when lower-cased.
ExpectWayland ==
    LET d == IF IsSome(env.WAYLAND_DISPLAY) THEN Unwrap(env.WAYLAND_DISPLAY) ELSE <<>>
    IN  \/ env.XDG_SESSION_TYPE = Some(wayland)
        \/ \E i \in 0..(Len(d) - Len(wayland)) :
              \A j \in 1..Len(wayland) : LowerChar(d[i + j]) = wayland[j]

\* C8: under any environment, every call of either entry point selects Wayland iff the
\* rule holds and X11 otherwise, so all calls under one environment agree.
C8_BackendSelection ==
    /\ \A p \in EntryPoints :
          selected[p] \subseteq {IF ExpectWayland THEN "wayland" ELSE "xorg"}
    /\ Cardinality(UNION {selected[p] : p \in EntryPoints}) <= 1

\* C8 witness: XDG_SESSION_TYPE absent, WAYLAND_DISPLAY in upper case, both entry points
\* called and both on the Wayland backend.
C8_Witness ==
    /\ env.XDG_SESSION_TYPE = None
    /\ env.WAYLAND_DISPLAY = Some(<<"W", "A", "Y", "L", "A", "N", "D", "-", "1">>)
    /\ \A p \in EntryPoints : selected[p] = {"wayland"}

\* C9: the monitor of a window is one that contains its center if any monitor does;
\* else one that intersects its rectangle if any does; else the primary monitor.
C9_CenterBeforeIntersection ==
    win_pc \in {"loop", "returned"} /\ IsSome(cf_array) =>
        \A k \in 1..Len(impl_windows) :
            LET w  == impl_windows[k]
                r  == Rect(w.x, w.y, w.width, w.height)
                cx == w.x + w.width \div 2
                cy == w.y + w.height \div 2
                ms == Unwrap(mac_monitors)
            IN  IF \E i \in 1..Len(ms) : contains_point(ms[i].bounds, cx, cy)
                THEN contains_point(w.current_monitor.bounds, cx, cy)
                ELSE IF \E i \in 1..Len(ms) : is_intersects(ms[i].bounds, r)
                THEN is_intersects(w.current_monitor.bounds, r)
                ELSE w.current_monitor = MonitorA

\* C10: the accumulator is never freed by the callback, never freed twice, and once
\* ImplMonitor::all has returned (Ok or Err) it has been freed exactly once, by all().
C10_AccumulatorReclaimedOnce ==
    /\ \A k \in 1..Len(hmonitors_box.freed_by) : hmonitors_box.freed_by[k] # "monitor_enum_proc"
    /\ Len(hmonitors_box.freed_by) <= 1
    /\ mon_pc = "returned" =>
          /\ hmonitors_box.freed_by = <<"ImplMonitor::all">>
          /\ ~hmonitors_box.allocated

\* C11: a handle that a native acquisition call returned invalid is never passed on
\* unannounced: BoxMonitorHDC never holds one (its constructor returns Err instead), and
\* no native call is made with an invalid DC that the code acquired and did not check.
C11_InvalidHandleNeverUsed ==
    /\ \A k \in 1..Len(guards) :
          guards[k].type = "BoxMonitorHDC" => gdi[guards[k].handle].valid
    /\ \A c \in hdc_calls : c.hdc_valid

====
